---------------------------- MODULE Spec2Model ----------------------------
(***************************************************************************)
(* Model of read_2col_pdf.py: two-column reading-order reconstruction of   *)
(* PDF pages (extract_text_two_cols and its block classifiers) and the     *)
(* clinical-trial identifier scan (extract_trial_ids,                      *)
(* extract_from_pdf_or_text).                                              *)
(*                                                                         *)
(* Text is a sequence of one-character strings.  A Python dict is a record *)
(* whose DOMAIN holds exactly the keys that are present, so a missing key  *)
(* (KeyError) is a field that is not in the DOMAIN.  Coordinates are       *)
(* integers; the float comparisons of the source are modelled by the       *)
(* equivalent comparison of rationals (x/2 is exact in binary floating     *)
(* point, d/n > 0.3 and w >= 10*0.8 agree with the rational comparison at  *)
(* the sizes modelled).                                                    *)
(***************************************************************************)
EXTENDS Integers, Sequences, FiniteSets, TLC

VARIABLES
    pc,            \* position of the running call
    doc,           \* pages returned by fitz.open(pdf_path)
    page_num,      \* enumerate(doc) index of the page being processed
    blocks,        \* extract_text_two_cols: blocks
    col_blocks,    \* extract_text_two_cols: col_blocks
    left_col,      \* extract_text_two_cols: left_col
    right_col,     \* extract_text_two_cols: right_col
    page_text,     \* extract_text_two_cols: page_text
    full_text,     \* extract_text_two_cols: full_text
    text,          \* extract_trial_ids: text
    pat_i,         \* extract_trial_ids: index of the next pattern of the loop
    trial_ids,     \* extract_trial_ids: trial_ids
    result,        \* value returned by the call
    input_source,  \* extract_from_pdf_or_text: input_source
    module_globals,\* the module's global names (pdf_path is set only under __main__)
    fs,            \* file system: path -> file
    tl_block       \* is_table_like: block

vars == <<pc, doc, page_num, blocks, col_blocks, left_col, right_col,
          page_text, full_text, text, pat_i, trial_ids, result,
          input_source, module_globals, fs, tl_block>>

pageVars == <<doc, page_num, blocks, col_blocks, left_col, right_col,
              page_text, full_text>>
idVars == <<text, pat_i, trial_ids>>
mainVars == <<input_source, module_globals, fs>>

-----------------------------------------------------------------------------
(* Bounds of the model *)

MaxBlocks == 3
MaxPages == 2
MaxTokens == 2
MaxLines == 4

-----------------------------------------------------------------------------
(* Characters and strings *)

DecimalDigits == {"0", "1", "2", "3", "4", "5", "6", "7", "8", "9"}

\* A digit character that is not a decimal digit (superscript two, written ^).
SuperscriptDigits == {"^"}

UpperLetters == {"A", "B", "C", "D", "E", "F", "G", "H", "I", "J", "K", "L", "M",
                 "N", "O", "P", "Q", "R", "S", "T", "U", "V", "W", "X", "Y", "Z"}

LowerLetters == {"a", "b", "c", "d", "e", "f", "g", "h", "i", "j", "k", "l", "m",
                 "n", "o", "p", "q", "r", "s", "t", "u", "v", "w", "x", "y", "z"}

\* str.isdigit: decimal digits and the other Unicode digit characters.
IsDigit(c) == c \in DecimalDigits \cup SuperscriptDigits

RECURSIVE CountDigits(_)
CountDigits(s) ==
    IF s = <<>> THEN 0
    ELSE (IF IsDigit(Head(s)) THEN 1 ELSE 0) + CountDigits(Tail(s))

\* sep.join(parts)
RECURSIVE Join(_, _)
Join(sep, parts) ==
    IF parts = <<>> THEN <<>>
    ELSE IF Len(parts) = 1 THEN parts[1]
    ELSE parts[1] \o sep \o Join(sep, Tail(parts))

DigitChar(d) ==
    CASE d = 0 -> "0" [] d = 1 -> "1" [] d = 2 -> "2" [] d = 3 -> "3"
      [] d = 4 -> "4" [] d = 5 -> "5" [] d = 6 -> "6" [] d = 7 -> "7"
      [] d = 8 -> "8" [] d = 9 -> "9"

\* str(n) of a natural number, as the f-string formats it
RECURSIVE DecStr(_)
DecStr(n) ==
    IF n < 10 THEN <<DigitChar(n)>>
    ELSE DecStr(n \div 10) \o <<DigitChar(n % 10)>>

Range(s) == {s[i] : i \in 1..Len(s)}

Count(s, x) == Cardinality({i \in 1..Len(s) : s[i] = x})

-----------------------------------------------------------------------------
(* Block classifiers *)

margin == 25
line_threshold == 3
digit_threshold_num == 3
digit_threshold_den == 10
threshold_num == 8
threshold_den == 10

\* is_full_width(block, page_width): width >= page_width * 0.8
is_full_width(block, page_width) ==
    LET x0 == block.bbox[1]
        x1 == block.bbox[3]
        width == x1 - x0
    IN  width * threshold_den >= page_width * threshold_num

is_header_or_footer_raises(block) == "bbox" \notin DOMAIN block

\* is_header_or_footer with "and" written for "or"
is_header_or_footer_and(block, page_height) ==
    LET y0 == block.bbox[2]
        y1 == block.bbox[4]
    IN  y1 < margin /\ y0 > (page_height - margin)

\* is_header_or_footer(block, page_height): y1 < margin or y0 > page_height - margin
is_header_or_footer(block, page_height) ==
    LET y0 == block.bbox[2]
        y1 == block.bbox[4]
    IN  y1 < margin \/ y0 > (page_height - margin)

\* [span["text"] for line in lines for span in line["spans"] if "text" in span]
RECURSIVE SpanTexts(_)
SpanTexts(spans) ==
    IF spans = <<>> THEN <<>>
    ELSE (IF "text" \in DOMAIN Head(spans) THEN <<Head(spans).text>> ELSE <<>>)
         \o SpanTexts(Tail(spans))

RECURSIVE text_content(_)
text_content(lines) ==
    IF lines = <<>> THEN <<>>
    ELSE SpanTexts(Head(lines).spans) \o text_content(Tail(lines))

\* all_text = " ".join(text_content)
all_text(block) == Join(<<" ">>, text_content(block.lines))

\* block["lines"] or line["spans"] raises KeyError
is_table_like_raises(block) ==
    IF "lines" \notin DOMAIN block THEN TRUE
    ELSE IF Len(block.lines) < line_threshold THEN FALSE
    ELSE \E i \in 1..Len(block.lines) : "spans" \notin DOMAIN block.lines[i]

\* is_table_like with >= written for >
is_table_like_ge(block) ==
    IF Len(block.lines) < line_threshold THEN FALSE
    ELSE IF all_text(block) = <<>> THEN FALSE
    ELSE CountDigits(all_text(block)) * digit_threshold_den
            >= digit_threshold_num * Len(all_text(block))

\* is_table_like(block): digit_ratio > digit_threshold
is_table_like(block) ==
    IF Len(block.lines) < line_threshold THEN FALSE
    ELSE IF all_text(block) = <<>> THEN FALSE
    ELSE CountDigits(all_text(block)) * digit_threshold_den
            > digit_threshold_num * Len(all_text(block))

\* line.get("spans", [])
SpansOf(line) == IF "spans" \in DOMAIN line THEN line.spans ELSE <<>>

\* block.get("lines", [])
LinesOf(block) == IF "lines" \in DOMAIN block THEN block.lines ELSE <<>>

\* span['text'] raises KeyError
block_text_raises(block) ==
    \E i \in 1..Len(LinesOf(block)) :
        \E j \in 1..Len(SpansOf(LinesOf(block)[i])) :
            "text" \notin DOMAIN SpansOf(LinesOf(block)[i])[j]

RECURSIVE SpanTextsAll(_)
SpanTextsAll(spans) ==
    IF spans = <<>> THEN <<>>
    ELSE <<Head(spans).text>> \o SpanTextsAll(Tail(spans))

RECURSIVE LineTexts(_)
LineTexts(lines) ==
    IF lines = <<>> THEN <<>>
    ELSE <<Join(<<" ">>, SpanTextsAll(SpansOf(Head(lines))))>>
         \o LineTexts(Tail(lines))

\* block_text(block): spans joined by " ", lines joined by "\n"
block_text(block) == Join(<<"\n">>, LineTexts(LinesOf(block)))

-----------------------------------------------------------------------------
(* extract_text_two_cols: one page *)

\* the comprehension of lines 68-73 raises KeyError (and short-circuits so)
FilterRaises(page) ==
    \E i \in 1..Len(page.blocks) :
        LET b == page.blocks[i] IN
        IF b.type # 0 THEN FALSE
        ELSE IF is_header_or_footer_raises(b) THEN TRUE
        ELSE IF is_header_or_footer(b, page.height) THEN FALSE
        ELSE is_table_like_raises(b)

Admits(b, page) ==
    /\ b.type = 0
    /\ ~is_header_or_footer(b, page.height)
    /\ ~is_table_like(b)

\* blocks = [b for b in ... if b["type"] == 0 and not header/footer and not table]
FilterBlocks(page) == SelectSeq(page.blocks, LAMBDA b : Admits(b, page))

\* col_blocks: the second pass of the same two tests
CollectColBlocks(bs, page) ==
    SelectSeq(bs, LAMBDA b : ~is_header_or_footer(b, page.height)
                             /\ ~is_table_like(b))

\* the midpoint test with <= written for <
InLeft_le(b, page) == b.bbox[1] + b.bbox[3] <= page.width

\* center_x = (x0 + x1) / 2 ; center_x < page.rect.width / 2
InLeft(b, page) == b.bbox[1] + b.bbox[3] < page.width

AssignLeft(cbs, page) == SelectSeq(cbs, LAMBDA b : InLeft(b, page))

AssignRight(cbs, page) == SelectSeq(cbs, LAMBDA b : ~InLeft(b, page))

\* insertion that keeps equal keys in their order (list.sort is stable)
RECURSIVE InsertByTop(_, _)
InsertByTop(sorted, b) ==
    IF sorted = <<>> THEN <<b>>
    ELSE IF b.bbox[2] < Head(sorted).bbox[2] THEN <<b>> \o sorted
    ELSE <<Head(sorted)>> \o InsertByTop(Tail(sorted), b)

RECURSIVE SortFrom(_, _)
SortFrom(sorted, rest) ==
    IF rest = <<>> THEN sorted
    ELSE SortFrom(InsertByTop(sorted, Head(rest)), Tail(rest))

\* col.sort(key = lambda b: b["bbox"][1])
SortByTop(col) == SortFrom(<<>>, col)

\* right_col + left_col
EmitOrder_rl(left, right) == right \o left

\* left_col + right_col
EmitOrder(left, right) == left \o right

RenderRaises(bs) == \E i \in 1..Len(bs) : block_text_raises(bs[i])

\* page_text += block_text(b) + "\n\n", up to the first block that raises
RECURSIVE RenderBlocks(_)
RenderBlocks(bs) ==
    IF bs = <<>> THEN <<>>
    ELSE IF block_text_raises(Head(bs)) THEN <<>>
    ELSE block_text(Head(bs)) \o <<"\n", "\n">> \o RenderBlocks(Tail(bs))

\* f"\n--- Page {page_num + 1} ---\n"
PageMarker(n) ==
    <<"\n", "-", "-", "-", " ", "P", "a", "g", "e", " ">> \o DecStr(n + 1)
        \o <<" ", "-", "-", "-", "\n">>

PageLeft(page) ==
    SortByTop(AssignLeft(CollectColBlocks(FilterBlocks(page), page), page))

PageRight(page) ==
    SortByTop(AssignRight(CollectColBlocks(FilterBlocks(page), page), page))

PageRaises(page) ==
    IF FilterRaises(page) THEN TRUE
    ELSE RenderRaises(EmitOrder(PageLeft(page), PageRight(page)))

PageText(page) == RenderBlocks(EmitOrder(PageLeft(page), PageRight(page)))

\* extract_text_two_cols raises KeyError on some page of d
ExtractRaises(d) == \E i \in 1..Len(d) : PageRaises(d[i])

RECURSIVE ExtractFrom(_, _)
ExtractFrom(d, n) ==
    IF n >= Len(d) THEN <<>>
    ELSE PageMarker(n) \o PageText(d[n + 1]) \o ExtractFrom(d, n + 1)

\* the value extract_text_two_cols returns for the pages d
extract_text_two_cols(d) == ExtractFrom(d, 0)

-----------------------------------------------------------------------------
(* Pages the PDF parser can return *)

TextBlock(bbox, chars) ==
    [type |-> 0, bbox |-> bbox,
     lines |-> << [spans |-> << [text |-> chars] >>] >>]

BTitle == TextBlock(<<1, 26, 9, 28>>, <<"T", "i">>)
BWide == TextBlock(<<0, 25, 9, 27>>, <<"W">>)
BLeft == TextBlock(<<1, 30, 4, 32>>, <<"L">>)
BRight == TextBlock(<<6, 30, 9, 32>>, <<"R">>)
BMid == [type |-> 0, bbox |-> <<3, 29, 7, 35>>,
         lines |-> << [spans |-> << [text |-> <<"M">>], [text |-> <<"m">>] >>],
                      [spans |-> << [text |-> <<"2">>] >>] >>]
BHeader == TextBlock(<<1, 5, 9, 24>>, <<"H">>)
BFooter == TextBlock(<<1, 36, 9, 40>>, <<"F">>)
BTable == [type |-> 0, bbox |-> <<1, 33, 4, 35>>,
           lines |-> << [spans |-> << [text |-> <<"1">>] >>],
                        [spans |-> << [text |-> <<"2">>] >>],
                        [spans |-> << [text |-> <<"3">>] >>] >>]
BImage == [type |-> 1, bbox |-> <<6, 33, 9, 35>>]
BNoBbox == [type |-> 0,
            lines |-> << [spans |-> << [text |-> <<"X">>] >>] >>]
BNoLines == [type |-> 0, bbox |-> <<1, 28, 4, 29>>]
BNoText == [type |-> 0, bbox |-> <<6, 28, 9, 29>>,
            lines |-> << [spans |-> << [size |-> 9] >>] >>]

WellFormedBlocks ==
    {BTitle, BWide, BLeft, BRight, BMid, BHeader, BFooter, BTable, BImage}

MalformedBlocks == {BNoBbox, BNoLines, BNoText}

BlockSet == WellFormedBlocks \cup MalformedBlocks

\* sequences of at most n distinct elements of S
DistinctSeqs(S, n) ==
    UNION {{s \in [1..k -> S] : \A i, j \in 1..k : i # j => s[i] # s[j]} : k \in 0..n}

SeqsUpTo(S, n) == UNION {[1..k -> S] : k \in 0..n}

MkPage(bs) == [width |-> 10, height |-> 60, blocks |-> bs]

Pages == {MkPage(bs) : bs \in DistinctSeqs(BlockSet, MaxBlocks)}

LeadPages == {MkPage(<<BLeft>>)}

\* documents: leading pages, then one page of any layout
Docs == {lead \o <<p>> : lead \in SeqsUpTo(LeadPages, MaxPages - 1), p \in Pages}

-----------------------------------------------------------------------------
(* extract_text_two_cols as a state machine *)

IdleIds == text = <<>> /\ pat_i = 0 /\ trial_ids = <<>>
IdleMain == input_source = <<>> /\ module_globals = [name |-> "idle"] /\ fs = <<>>
IdleTable == tl_block = [type |-> 0]

InitPage ==
    /\ pc = "pages"
    /\ doc \in Docs
    /\ page_num = -1
    /\ blocks = <<>> /\ col_blocks = <<>>
    /\ left_col = <<>> /\ right_col = <<>>
    /\ page_text = <<>> /\ full_text = <<>>
    /\ result = "none"
    /\ IdleIds /\ IdleMain /\ IdleTable

NextPageOf(d, n) == d[n + 2]

\* one iteration of "for page_num, page in enumerate(doc)" that completes
ProcessPage ==
    /\ pc = "pages"
    /\ page_num + 1 < Len(doc)
    /\ LET page == NextPageOf(doc, page_num) IN
       /\ ~PageRaises(page)
       /\ blocks' = FilterBlocks(page)
       /\ col_blocks' = CollectColBlocks(blocks', page)
       /\ left_col' = SortByTop(AssignLeft(col_blocks', page))
       /\ right_col' = SortByTop(AssignRight(col_blocks', page))
       /\ page_text' = RenderBlocks(EmitOrder(left_col', right_col'))
       /\ full_text' = full_text \o PageMarker(page_num + 1) \o page_text'
    /\ page_num' = page_num + 1
    /\ UNCHANGED <<pc, doc, result, idVars, mainVars, tl_block>>

\* the comprehension of lines 68-73 raises KeyError: nothing of the page is assigned
FilterKeyError ==
    /\ pc = "pages"
    /\ page_num + 1 < Len(doc)
    /\ FilterRaises(NextPageOf(doc, page_num))
    /\ pc' = "error"
    /\ page_num' = page_num + 1
    /\ result' = "KeyError"
    /\ UNCHANGED <<doc, blocks, col_blocks, left_col, right_col, page_text,
                   full_text, idVars, mainVars, tl_block>>

\* block_text raises KeyError in the loop of lines 104-105
RenderKeyError ==
    /\ pc = "pages"
    /\ page_num + 1 < Len(doc)
    /\ LET page == NextPageOf(doc, page_num) IN
       /\ ~FilterRaises(page)
       /\ blocks' = FilterBlocks(page)
       /\ col_blocks' = CollectColBlocks(blocks', page)
       /\ left_col' = SortByTop(AssignLeft(col_blocks', page))
       /\ right_col' = SortByTop(AssignRight(col_blocks', page))
       /\ RenderRaises(EmitOrder(left_col', right_col'))
       /\ page_text' = RenderBlocks(EmitOrder(left_col', right_col'))
    /\ pc' = "error"
    /\ page_num' = page_num + 1
    /\ result' = "KeyError"
    /\ UNCHANGED <<doc, full_text, idVars, mainVars, tl_block>>

\* return full_text
ReturnText ==
    /\ pc = "pages"
    /\ page_num + 1 = Len(doc)
    /\ pc' = "done"
    /\ result' = full_text
    /\ UNCHANGED <<pageVars, idVars, mainVars, tl_block>>

NextPage == ProcessPage \/ FilterKeyError \/ RenderKeyError \/ ReturnText

SpecPage == InitPage /\ [][NextPage]_vars

-----------------------------------------------------------------------------
(* Properties of extract_text_two_cols (checked under SpecPage) *)

\* the page of the current iteration
CurPage == doc[page_num + 1]

\* an iteration has assigned left_col and right_col for CurPage
ColsAssigned ==
    /\ page_num >= 0
    /\ IF pc = "error" THEN ~FilterRaises(CurPage) ELSE TRUE

\* an iteration has completed for CurPage
PageDone == page_num >= 0 /\ pc \in {"pages", "done"}

\* a text block that lacks a field the page loop reads
Malformed(b) ==
    /\ b.type = 0
    /\ IF "bbox" \notin DOMAIN b THEN TRUE
       ELSE IF "lines" \notin DOMAIN b THEN TRUE
       ELSE block_text_raises(b)

\* admitted by the rule of the specification, stated on the geometry
Admitted(b, page) ==
    /\ b.type = 0
    /\ ~Malformed(b)
    /\ ~(b.bbox[4] < 25)
    /\ ~(b.bbox[2] > page.height - 25)
    /\ ~is_table_like(b)

Sorted(col) ==
    \A i, j \in 1..Len(col) : i < j => col[i].bbox[2] <= col[j].bbox[2]

RECURSIVE Emitted(_)
Emitted(bs) ==
    IF bs = <<>> THEN <<>>
    ELSE block_text(Head(bs)) \o <<"\n", "\n">> \o Emitted(Tail(bs))

EndsWith(s, suffix) ==
    /\ Len(suffix) <= Len(s)
    /\ SubSeq(s, Len(s) - Len(suffix) + 1, Len(s)) = suffix

Contains(s, part) ==
    \E k \in 0..(Len(s) - Len(part)) : SubSeq(s, k + 1, k + Len(part)) = part

\* one full-width title on top, one left and one right column block below it
TitlePage(page, t, l, r) ==
    /\ Len(page.blocks) = 3
    /\ Range(page.blocks) = {t, l, r}
    /\ Admitted(t, page) /\ Admitted(l, page) /\ Admitted(r, page)
    /\ is_full_width(t, page.width)
    /\ ~is_full_width(l, page.width) /\ ~is_full_width(r, page.width)
    /\ l.bbox[1] + l.bbox[3] < page.width
    /\ r.bbox[1] + r.bbox[3] > page.width
    /\ t.bbox[4] <= l.bbox[2] /\ t.bbox[4] <= r.bbox[2]

\* C1: on a page of one full-width title above one left and one right column
\* block, the page's text is the page marker, then the title, the left block
\* and the right block, each followed by a paragraph break.
C1_TitleBeforeColumns ==
    PageDone =>
        \A t, l, r \in Range(CurPage.blocks) :
            TitlePage(CurPage, t, l, r) =>
                /\ page_text = Emitted(<<t, l, r>>)
                /\ EndsWith(full_text, PageMarker(page_num) \o Emitted(<<t, l, r>>))

\* C2: after column assignment no full-width block is in the left or the right
\* column group.
C2_NoFullWidthInColumns ==
    ColsAssigned =>
        \A b \in Range(left_col) \cup Range(right_col) :
            ~is_full_width(b, CurPage.width)

\* C3: every admitted block of the page is in exactly one of left_col and
\* right_col; it is in left_col exactly when (x0 + x1) / 2 < width / 2, and a
\* block whose centre is exactly width / 2 is in right_col.
C3_MidpointPartition ==
    ColsAssigned =>
        \A b \in Range(CurPage.blocks) :
            Admitted(b, CurPage) =>
                /\ Count(left_col, b) + Count(right_col, b) = 1
                /\ Count(left_col, b) = 1 <=> b.bbox[1] + b.bbox[3] < CurPage.width
                /\ b.bbox[1] + b.bbox[3] = CurPage.width => Count(right_col, b) = 1

\* a page with a block centred exactly on the mid-line and a left block
C3_Witness ==
    /\ ColsAssigned
    /\ left_col # <<>>
    /\ \E b \in Range(right_col) : b.bbox[1] + b.bbox[3] = CurPage.width

\* C6: a malformed block is skipped: no error aborts the page and the text of
\* every other admitted block of the page is in the page text.
C6_MalformedBlockSkipped ==
    (page_num >= 0 /\ \E m \in Range(CurPage.blocks) : Malformed(m)) =>
        /\ pc # "error"
        /\ \A b \in Range(CurPage.blocks) :
               Admitted(b, CurPage) => Contains(page_text, Emitted(<<b>>))

\* C8: the page text is the left column's blocks and then the right column's,
\* each column in ascending order of top y, each block's text followed by two
\* line breaks.
C8_LeftThenRightSorted ==
    PageDone =>
        /\ Sorted(left_col) /\ Sorted(right_col)
        /\ \A b \in Range(left_col) : b.bbox[1] + b.bbox[3] < CurPage.width
        /\ \A b \in Range(right_col) : b.bbox[1] + b.bbox[3] >= CurPage.width
        /\ page_text = Emitted(left_col) \o Emitted(right_col)

\* two left blocks that arrive bottom-first, and a right block
C8_Witness ==
    /\ PageDone
    /\ Len(left_col) >= 2
    /\ left_col # AssignLeft(col_blocks, CurPage)
    /\ right_col # <<>>

\* C9: every block of a column group is a text block, not header or footer
\* (bottom edge not above the margin, top edge not below height - margin) and
\* not table-like; the page text is made of the column groups only.
C9_OnlyAdmittedInColumns ==
    ColsAssigned =>
        /\ \A b \in Range(left_col) \cup Range(right_col) :
               /\ b \in Range(CurPage.blocks)
               /\ b.type = 0
               /\ ~(b.bbox[4] < 25)
               /\ ~(b.bbox[2] > CurPage.height - 25)
               /\ ~is_table_like(b)
        /\ PageDone => page_text = Emitted(left_col \o right_col)

\* a page with a header or footer block, a table or image block and a column block
C9_Witness ==
    /\ PageDone
    /\ left_col \o right_col # <<>>
    /\ \E b \in Range(CurPage.blocks) :
           b.type = 0 /\ (b.bbox[4] < 25 \/ b.bbox[2] > CurPage.height - 25)
    /\ \E b \in Range(CurPage.blocks) :
           b.type # 0 \/ (~Malformed(b) /\ is_table_like(b))

-----------------------------------------------------------------------------
(* Regular expressions of extract_trial_ids, matched as re.findall matches *)

Whitespace == {" ", "\n", "\t"}

AlphaNum == UpperLetters \cup LowerLetters \cup DecimalDigits

\* \w
WordChars == AlphaNum \cup {"_"} \cup SuperscriptDigits

\* cs{lo,hi}
Rep(cs, lo, hi) ==
    [k |-> "cls", cs |-> cs, lo |-> lo, hi |-> hi, inf |-> FALSE, sub |-> <<>>]

\* cs+
Plus(cs) ==
    [k |-> "cls", cs |-> cs, lo |-> 1, hi |-> 1, inf |-> TRUE, sub |-> <<>>]

\* \b
WordBoundary ==
    [k |-> "b", cs |-> {}, lo |-> 0, hi |-> 0, inf |-> FALSE, sub |-> <<>>]

\* (?:sub)?
Opt(sub) ==
    [k |-> "opt", cs |-> {}, lo |-> 0, hi |-> 1, inf |-> FALSE, sub |-> sub]

\* literal characters
Lit(chars) == [i \in 1..Len(chars) |-> Rep({chars[i]}, 1, 1)]

\* \b holds between offsets i and i + 1 of t
AtBoundary(t, i) ==
    LET before == IF i >= 1 THEN t[i] \in WordChars ELSE FALSE
        after == IF i < Len(t) THEN t[i + 1] \in WordChars ELSE FALSE
    IN  before # after

\* how many of the characters after offset i are in cs, at most cap
RECURSIVE RunLen(_, _, _, _)
RunLen(cs, t, i, cap) ==
    IF cap = 0 THEN 0
    ELSE IF i >= Len(t) THEN 0
    ELSE IF t[i + 1] \notin cs THEN 0
    ELSE 1 + RunLen(cs, t, i + 1, cap - 1)

\* The end offset of the match the backtracking matcher finds first for the
\* items at offset i of t (greedy repetition, the optional group tried before
\* its omission), or -1 when there is none.
RECURSIVE MatchEnd(_, _, _)
RECURSIVE TryRep(_, _, _, _, _)
TryRep(rest, t, i, n, lo) ==
    IF n < lo THEN -1
    ELSE LET e == MatchEnd(rest, t, i + n)
         IN  IF e # -1 THEN e ELSE TryRep(rest, t, i, n - 1, lo)

MatchEnd(items, t, i) ==
    IF items = <<>> THEN i
    ELSE LET it == Head(items)
             rest == Tail(items)
         IN  CASE it.k = "b" ->
                    IF AtBoundary(t, i) THEN MatchEnd(rest, t, i) ELSE -1
               [] it.k = "opt" ->
                    LET e == MatchEnd(it.sub \o rest, t, i)
                    IN  IF e # -1 THEN e ELSE MatchEnd(rest, t, i)
               [] it.k = "cls" ->
                    TryRep(rest, t, i,
                           RunLen(it.cs, t, i, IF it.inf THEN Len(t) ELSE it.hi),
                           it.lo)

\* re.findall(pattern, t): the non-overlapping matches, scanning from offset pos
RECURSIVE FindAll(_, _, _)
FindAll(items, t, pos) ==
    IF pos > Len(t) THEN <<>>
    ELSE LET e == MatchEnd(items, t, pos)
         IN  IF e = -1 THEN FindAll(items, t, pos + 1)
             ELSE <<SubSeq(t, pos + 1, e)>>
                  \o FindAll(items, t, IF e = pos THEN pos + 1 ELSE e)

\* line 117
PatNCT ==
    <<WordBoundary>> \o
    Lit(<<"N", "C", "T">>) \o
    <<Rep(DecimalDigits, 6, 8)>> \o
    <<WordBoundary>>

\* line 119
PatEUCTR ==
    <<WordBoundary>> \o
    Lit(<<"E", "U", "C", "T", "R">>) \o
    <<Rep(DecimalDigits, 4, 4)>> \o
    Lit(<<"-">>) \o
    <<Rep(DecimalDigits, 6, 6)>> \o
    Lit(<<"-">>) \o
    <<Rep(DecimalDigits, 2, 2)>> \o
    <<Opt(Lit(<<"-">>) \o <<Rep(UpperLetters, 2, 3)>>)>> \o
    <<WordBoundary>>

\* line 120
PatEudraCT ==
    <<WordBoundary>> \o
    Lit(<<"E", "u", "d", "r", "a", "C", "T">>) \o
    <<Rep(Whitespace, 0, 1)>> \o
    <<Rep(DecimalDigits, 4, 4)>> \o
    Lit(<<"-">>) \o
    <<Rep(DecimalDigits, 6, 6)>> \o
    Lit(<<"-">>) \o
    <<Rep(DecimalDigits, 2, 2)>> \o
    <<WordBoundary>>

\* line 122
PatISRCTN ==
    <<WordBoundary>> \o
    Lit(<<"I", "S", "R", "C", "T", "N">>) \o
    <<Rep(DecimalDigits, 6, 8)>> \o
    <<WordBoundary>>

\* line 124
PatUMIN ==
    <<WordBoundary>> \o
    Lit(<<"U", "M", "I", "N">>) \o
    <<Rep(DecimalDigits, 6, 8)>> \o
    <<WordBoundary>>

\* line 126
PatChiCTR ==
    <<WordBoundary>> \o
    Lit(<<"C", "h", "i", "C", "T", "R">>) \o
    <<Opt(Lit(<<"-">>) \o <<Rep(UpperLetters, 2, 3)>>)>> \o
    Lit(<<"-">>) \o
    <<Rep(DecimalDigits, 6, 8)>> \o
    <<WordBoundary>>

\* line 128
PatACTRN ==
    <<WordBoundary>> \o
    Lit(<<"A", "C", "T", "R", "N">>) \o
    <<Rep(DecimalDigits, 14, 14)>> \o
    <<WordBoundary>>

\* line 130
PatJPRN ==
    <<WordBoundary>> \o
    Lit(<<"J", "P", "R", "N", "-">>) \o
    <<Plus(UpperLetters)>> \o
    <<Rep(DecimalDigits, 6, 8)>> \o
    <<WordBoundary>>

\* line 132
PatJapicCTI ==
    <<WordBoundary>> \o
    Lit(<<"J", "a", "p", "i", "c", "C", "T", "I", "-">>) \o
    <<Rep(DecimalDigits, 6, 6)>> \o
    <<WordBoundary>>

\* line 134
PatCTRI ==
    <<WordBoundary>> \o
    Lit(<<"C", "T", "R", "I", "/">>) \o
    <<Rep(DecimalDigits, 4, 4)>> \o
    Lit(<<"/">>) \o
    <<Rep(DecimalDigits, 2, 2)>> \o
    Lit(<<"/">>) \o
    <<Rep(DecimalDigits, 6, 6)>> \o
    <<WordBoundary>>

\* line 136
PatIRCT ==
    <<WordBoundary>> \o
    Lit(<<"I", "R", "C", "T">>) \o
    <<Rep(DecimalDigits, 8, 15)>> \o
    <<Opt(<<Rep(UpperLetters, 1, 1)>> \o <<Plus(DecimalDigits)>>)>> \o
    <<WordBoundary>>

\* line 137
PatIRCTslashDRKS ==
    <<WordBoundary>> \o
    Lit(<<"I", "R", "C", "T", "/">>) \o
    <<Rep(DecimalDigits, 4, 4)>> \o
    Lit(<<"/">>) \o
    <<Rep(DecimalDigits, 2, 2)>> \o
    Lit(<<"/">>) \o
    <<Rep(DecimalDigits, 2, 2)>> \o
    Lit(<<"/">>) \o
    <<Plus(DecimalDigits)>> \o
    <<WordBoundary>> \o
    <<WordBoundary>> \o
    Lit(<<"D", "R", "K", "S">>) \o
    <<Rep(DecimalDigits, 6, 8)>> \o
    <<WordBoundary>>

\* line 141
PatNTR ==
    <<WordBoundary>> \o
    Lit(<<"N", "T", "R">>) \o
    <<Rep(DecimalDigits, 4, 8)>> \o
    <<WordBoundary>>

\* line 143
PatPER ==
    <<WordBoundary>> \o
    Lit(<<"P", "E", "R", "-">>) \o
    <<Rep(DecimalDigits, 3, 4)>> \o
    Lit(<<"-">>) \o
    <<Rep(DecimalDigits, 2, 2)>> \o
    <<WordBoundary>>

\* line 145
PatKCT ==
    <<WordBoundary>> \o
    Lit(<<"K", "C", "T">>) \o
    <<Rep(DecimalDigits, 6, 8)>> \o
    <<WordBoundary>>

\* line 147
PatSLCTR ==
    <<WordBoundary>> \o
    Lit(<<"S", "L", "C", "T", "R", "/">>) \o
    <<Rep(DecimalDigits, 4, 4)>> \o
    Lit(<<"/">>) \o
    <<Rep(DecimalDigits, 3, 3)>> \o
    <<WordBoundary>>

\* line 149
PatRBR ==
    <<WordBoundary>> \o
    Lit(<<"R", "B", "R", "-">>) \o
    <<Rep(AlphaNum, 6, 10)>> \o
    <<WordBoundary>>

\* line 151
PatPACTR ==
    <<WordBoundary>> \o
    Lit(<<"P", "A", "C", "T", "R">>) \o
    <<Rep(DecimalDigits, 14, 20)>> \o
    <<WordBoundary>>

\* line 153
PatTCTR ==
    <<WordBoundary>> \o
    Lit(<<"T", "C", "T", "R">>) \o
    <<Rep(DecimalDigits, 13, 13)>> \o
    <<WordBoundary>>

\* line 155
PatCRiS ==
    <<WordBoundary>> \o
    Lit(<<"C", "R", "i", "S", "-", "K", "C", "T">>) \o
    <<Rep(DecimalDigits, 7, 7)>> \o
    <<WordBoundary>>

\* line 157
PatLBCTR ==
    <<WordBoundary>> \o
    Lit(<<"L", "B", "C", "T", "R">>) \o
    <<Rep(DecimalDigits, 8, 12)>> \o
    <<WordBoundary>>

\* line 159
PatHCCTD ==
    <<WordBoundary>> \o
    Lit(<<"H", "C", "-", "C", "T", "D", "-">>) \o
    <<Rep(DecimalDigits, 4, 4)>> \o
    Lit(<<"-">>) \o
    <<Rep(DecimalDigits, 4, 4)>> \o
    <<WordBoundary>>

\* line 161
PatUTN ==
    <<WordBoundary>> \o
    Lit(<<"U", "1", "1", "1", "1", "-">>) \o
    <<Rep(DecimalDigits, 4, 4)>> \o
    Lit(<<"-">>) \o
    <<Rep(DecimalDigits, 4, 4)>> \o
    <<WordBoundary>>

\* line 163
PatUCTR ==
    <<WordBoundary>> \o
    Lit(<<"U", "C", "T", "R">>) \o
    <<Rep(DecimalDigits, 11, 15)>> \o
    <<WordBoundary>>

\* line 164
PatUCTRdash ==
    <<WordBoundary>> \o
    Lit(<<"U", "C", "T", "R", "-">>) \o
    <<Rep(DecimalDigits, 5, 7)>> \o
    <<WordBoundary>>

\* the list of lines 115-165; the strings of lines 137 and 139 are adjacent
\* literals with no comma between them, which Python joins into one pattern
patterns ==
    <<PatNCT, PatEUCTR, PatEudraCT, PatISRCTN, PatUMIN,
      PatChiCTR, PatACTRN, PatJPRN, PatJapicCTI, PatCTRI,
      PatIRCT, PatIRCTslashDRKS, PatNTR, PatPER, PatKCT,
      PatSLCTR, PatRBR, PatPACTR, PatTCTR, PatCRiS,
      PatLBCTR, PatHCCTD, PatUTN, PatUCTR, PatUCTRdash>>

\* trial_ids after the loop of lines 169-170 has run over patterns n..
RECURSIVE ScanFrom(_, _)
ScanFrom(t, n) ==
    IF n > Len(patterns) THEN <<>>
    ELSE FindAll(patterns[n], t, 0) \o ScanFrom(t, n + 1)

\* list(ids): no deduplication
ListOfSet_keep(ids) == {ids}

\* list(set(ids)): the distinct strings, in an order the set decides
ListOfSet(ids) ==
    {s \in [1..Cardinality(Range(ids)) -> Range(ids)] : Range(s) = Range(ids)}

-----------------------------------------------------------------------------
(* Texts given to extract_trial_ids *)

\* well-formed identifiers of each registry grammar of the trial-ID table
IdsNCT ==
    {<<"N", "C", "T", "0", "0", "3", "6", "1", "3", "3", "5">>,
     <<"N", "C", "T", "1", "2", "3", "4", "5", "6">>}

IdsEUCTR ==
    {<<"E", "U", "C", "T", "R", "2", "0", "2", "0", "-", "0", "0", "1", "2", "3", "4", "-", "1", "2">>,
     <<"E", "U", "C", "T", "R", "2", "0", "2", "0", "-", "0", "0", "1", "2", "3", "4", "-", "1", "2", "-", "G", "B">>}

IdsEudraCT ==
    {<<"E", "u", "d", "r", "a", "C", "T", " ", "2", "0", "2", "0", "-", "0", "0", "1", "2", "3", "4", "-", "1", "2">>,
     <<"E", "u", "d", "r", "a", "C", "T", "2", "0", "2", "0", "-", "0", "0", "1", "2", "3", "4", "-", "1", "2">>}

IdsISRCTN ==
    {<<"I", "S", "R", "C", "T", "N", "1", "2", "3", "4", "5", "6">>}

IdsUMIN ==
    {<<"U", "M", "I", "N", "0", "0", "0", "0", "1", "2">>}

IdsChiCTR ==
    {<<"C", "h", "i", "C", "T", "R", "-", "1", "2", "3", "4", "5", "6">>,
     <<"C", "h", "i", "C", "T", "R", "-", "T", "R", "C", "-", "1", "2", "3", "4", "5", "6", "7", "8">>}

IdsACTRN ==
    {<<"A", "C", "T", "R", "N", "1", "2", "3", "4", "5", "6", "7", "8", "9", "0", "1", "2", "3", "4">>}

IdsJPRN ==
    {<<"J", "P", "R", "N", "-", "U", "M", "I", "N", "1", "2", "3", "4", "5", "6">>}

IdsJapicCTI ==
    {<<"J", "a", "p", "i", "c", "C", "T", "I", "-", "1", "2", "3", "4", "5", "6">>}

IdsCTRI ==
    {<<"C", "T", "R", "I", "/", "2", "0", "2", "0", "/", "0", "1", "/", "1", "2", "3", "4", "5", "6">>}

IdsIRCT ==
    {<<"I", "R", "C", "T", "1", "2", "3", "4", "5", "6", "7", "8">>,
     <<"I", "R", "C", "T", "1", "2", "3", "4", "5", "6", "7", "8", "N", "1">>}

IdsIRCTslash ==
    {<<"I", "R", "C", "T", "/", "2", "0", "2", "0", "/", "0", "1", "/", "0", "2", "/", "3">>}

IdsDRKS ==
    {<<"D", "R", "K", "S", "0", "0", "0", "0", "1", "2", "3", "4">>,
     <<"D", "R", "K", "S", "1", "2", "3", "4", "5", "6">>}

IdsNTR ==
    {<<"N", "T", "R", "1", "2", "3", "4">>}

IdsPER ==
    {<<"P", "E", "R", "-", "1", "2", "3", "-", "4", "5">>}

IdsKCT ==
    {<<"K", "C", "T", "0", "0", "0", "1", "2", "3", "4">>}

IdsSLCTR ==
    {<<"S", "L", "C", "T", "R", "/", "2", "0", "2", "0", "/", "0", "0", "1">>}

IdsRBR ==
    {<<"R", "B", "R", "-", "4", "a", "b", "c", "9", "Z">>}

IdsPACTR ==
    {<<"P", "A", "C", "T", "R", "1", "2", "3", "4", "5", "6", "7", "8", "9", "0", "1", "2", "3", "4">>}

IdsTCTR ==
    {<<"T", "C", "T", "R", "1", "2", "3", "4", "5", "6", "7", "8", "9", "0", "1", "2", "3">>}

IdsCRiS ==
    {<<"C", "R", "i", "S", "-", "K", "C", "T", "0", "0", "0", "1", "2", "3", "4">>}

IdsLBCTR ==
    {<<"L", "B", "C", "T", "R", "1", "2", "3", "4", "5", "6", "7", "8">>}

IdsHCCTD ==
    {<<"H", "C", "-", "C", "T", "D", "-", "2", "0", "2", "0", "-", "1", "2", "3", "4">>}

IdsUTN ==
    {<<"U", "1", "1", "1", "1", "-", "1", "2", "3", "4", "-", "5", "6", "7", "8">>}

IdsUCTR ==
    {<<"U", "C", "T", "R", "1", "2", "3", "4", "5", "6", "7", "8", "9", "0", "1">>,
     <<"U", "C", "T", "R", "-", "1", "2", "3", "4", "5">>}

WellFormedIds ==
    IdsNCT
    \cup IdsEUCTR
    \cup IdsEudraCT
    \cup IdsISRCTN
    \cup IdsUMIN
    \cup IdsChiCTR
    \cup IdsACTRN
    \cup IdsJPRN
    \cup IdsJapicCTI
    \cup IdsCTRI
    \cup IdsIRCT
    \cup IdsIRCTslash
    \cup IdsDRKS
    \cup IdsNTR
    \cup IdsPER
    \cup IdsKCT
    \cup IdsSLCTR
    \cup IdsRBR
    \cup IdsPACTR
    \cup IdsTCTR
    \cup IdsCRiS
    \cup IdsLBCTR
    \cup IdsHCCTD
    \cup IdsUTN
    \cup IdsUCTR

\* words that are no identifier of any grammar
OtherWords ==
    {<<"s", "t", "u", "d", "y">>,
     <<"N", "C", "T", "1", "2", "3", "4", "5">>,
     <<"X", "N", "C", "T", "0", "0", "3", "6", "1", "3", "3", "5">>}

Tokens == WellFormedIds \cup OtherWords

\* a token, then more tokens: the same one again, a word, another identifier
Followers(p) ==
    {p, <<"s", "t", "u", "d", "y">>,
     <<"N", "C", "T", "0", "0", "3", "6", "1", "3", "3", "5">>}

\* the tokens separated by line breaks, inside blanks
MkText(toks) == <<" ">> \o Join(<<"\n">>, toks) \o <<" ">>

Texts ==
    {MkText(<<>>)} \cup
    UNION {{MkText(<<p>> \o more) : more \in SeqsUpTo(Followers(p), MaxTokens - 1)}
           : p \in Tokens}

-----------------------------------------------------------------------------
(* extract_trial_ids as a state machine *)

IdlePage ==
    /\ doc = <<>> /\ page_num = -1
    /\ blocks = <<>> /\ col_blocks = <<>>
    /\ left_col = <<>> /\ right_col = <<>>
    /\ page_text = <<>> /\ full_text = <<>>

InitIds ==
    /\ pc = "scan"
    /\ text \in Texts
    /\ pat_i = 1
    /\ trial_ids = <<>>
    /\ result = "none"
    /\ IdlePage /\ IdleMain /\ IdleTable

\* one iteration of "for pattern in patterns": trial_ids += re.findall(...)
ScanPattern ==
    /\ pc = "scan"
    /\ pat_i <= Len(patterns)
    /\ trial_ids' = trial_ids \o FindAll(patterns[pat_i], text, 0)
    /\ pat_i' = pat_i + 1
    /\ UNCHANGED <<pc, text, result, pageVars, mainVars, tl_block>>

\* return list(set(trial_ids))
ReturnIds ==
    /\ pc = "scan"
    /\ pat_i > Len(patterns)
    /\ \E ids \in ListOfSet(trial_ids) : result' = ids
    /\ pc' = "done"
    /\ UNCHANGED <<text, pat_i, trial_ids, pageVars, mainVars, tl_block>>

NextIds == ScanPattern \/ ReturnIds

SpecIds == InitIds /\ [][NextIds]_vars

-----------------------------------------------------------------------------
(* Properties of extract_trial_ids (checked under SpecIds) *)

\* id occurs in t between two whitespace characters
OccursBounded(t, id) ==
    \E k \in 1..(Len(t) - Len(id) - 1) :
        /\ t[k] \in Whitespace
        /\ SubSeq(t, k + 1, k + Len(id)) = id
        /\ t[k + Len(id) + 1] \in Whitespace

\* C4: for every registry grammar of the trial-ID table, a well-formed
\* identifier that occurs in the text bounded by whitespace is in the result.
C4_EveryGrammarExtracted ==
    pc = "done" =>
        \A id \in WellFormedIds : OccursBounded(text, id) => id \in Range(result)

\* C7: the result holds every matched string exactly once, however often it
\* was matched, and is empty when nothing matched; no error is raised.
C7_EachMatchOnce ==
    /\ pc # "error"
    /\ pc = "done" =>
        /\ \A id \in Range(trial_ids) : Count(result, id) = 1
        /\ Range(result) \subseteq Range(trial_ids)
        /\ trial_ids = <<>> => result = <<>>

\* a text in which one identifier was matched more than once
C7_Witness ==
    /\ pc = "done"
    /\ result # <<>>
    /\ \E id \in Range(trial_ids) : Count(trial_ids, id) >= 2

-----------------------------------------------------------------------------
(* extract_from_pdf_or_text *)

UpperSeq == <<"A", "B", "C", "D", "E", "F", "G", "H", "I", "J", "K", "L", "M",
              "N", "O", "P", "Q", "R", "S", "T", "U", "V", "W", "X", "Y", "Z">>

LowerSeq == <<"a", "b", "c", "d", "e", "f", "g", "h", "i", "j", "k", "l", "m",
              "n", "o", "p", "q", "r", "s", "t", "u", "v", "w", "x", "y", "z">>

LowerChar(c) ==
    IF c \in UpperLetters
    THEN LowerSeq[CHOOSE i \in 1..Len(UpperSeq) : UpperSeq[i] = c]
    ELSE c

\* str.lower()
Lower(str) == [i \in 1..Len(str) |-> LowerChar(str[i])]

\* os.path.isfile(path)
isfile(files, path) == path \in DOMAIN files

\* os.path.isfile(input_source) and input_source.lower().endswith('.pdf')
IsPdfInput(files, src) ==
    /\ isfile(files, src)
    /\ EndsWith(Lower(src), <<".", "p", "d", "f">>)

\* the path __main__ binds to the global pdf_path (line 191)
MainPdfPath == <<"d", "a", "t", "a", "/", "p", "a", "p", "e", "r", "2", ".", "p", "d", "f">>

OtherPdfPath == <<"b", "/", "O", "t", "h", "e", "r", ".", "P", "D", "F">>

NotesPath == <<"n", "o", "t", "e", "s", ".", "t", "x", "t">>

MissingPdfPath == <<"g", "o", "n", "e", ".", "p", "d", "f">>

MainDoc ==
    <<MkPage(<<TextBlock(<<1, 30, 4, 32>>, <<"s", "e", "e", " ", "N", "C", "T", "0", "0", "3", "6", "1", "3", "3", "5", " ", "h", "e", "r", "e">>)>>)>>

OtherDoc ==
    <<MkPage(<<BTitle, TextBlock(<<1, 30, 4, 32>>, <<"K", "C", "T", "0", "0", "0", "1", "2", "3", "4">>)>>)>>

PdfFile(pages) == [kind |-> "pdf", pages |-> pages]

FsWithMain ==
    (MainPdfPath :> PdfFile(MainDoc)) @@ (OtherPdfPath :> PdfFile(OtherDoc))
        @@ (NotesPath :> [kind |-> "text"])

FsWithoutMain ==
    (OtherPdfPath :> PdfFile(OtherDoc)) @@ (NotesPath :> [kind |-> "text"])

\* run as a script (pdf_path bound at line 191) or imported (pdf_path unbound)
GlobalsAsMain == [name |-> "__main__", pdf_path |-> MainPdfPath]

GlobalsImported == [name |-> "read_2col_pdf"]

InputSources ==
    {MainPdfPath, OtherPdfPath, NotesPath, MissingPdfPath}
    \cup {MkText(<<id>>) : id \in IdsNCT \cup IdsKCT \cup IdsDRKS \cup OtherWords}
    \cup {MkText(<<>>)}

InitMain ==
    /\ pc = "call"
    /\ input_source \in InputSources
    /\ module_globals \in {GlobalsAsMain, GlobalsImported}
    /\ fs \in {FsWithMain, FsWithoutMain}
    /\ text = <<>> /\ pat_i = 0 /\ trial_ids = <<>>
    /\ result = "none"
    /\ IdlePage /\ IdleTable

\* line 180: the input-detection test
Detect ==
    /\ pc = "call"
    /\ pc' = IF IsPdfInput(fs, input_source) THEN "pdf" ELSE "raw"
    /\ UNCHANGED <<result, pageVars, idVars, mainVars, tl_block>>

\* line 182: the argument of extract_text_two_cols is the global name pdf_path
ReadArg(src, globals) == globals.pdf_path

\* line 182: text = extract_text_two_cols(pdf_path)
ReadPdf ==
    /\ pc = "pdf"
    /\ "pdf_path" \in DOMAIN module_globals
    /\ isfile(fs, ReadArg(input_source, module_globals))
    /\ fs[ReadArg(input_source, module_globals)].kind = "pdf"
    /\ ~ExtractRaises(fs[ReadArg(input_source, module_globals)].pages)
    /\ text' = extract_text_two_cols(fs[ReadArg(input_source, module_globals)].pages)
    /\ pc' = "ids"
    /\ UNCHANGED <<result, pageVars, pat_i, trial_ids, mainVars, tl_block>>

\* line 182: the name pdf_path is not bound (NameError)
ReadPdfNameError ==
    /\ pc = "pdf"
    /\ "pdf_path" \notin DOMAIN module_globals
    /\ pc' = "error"
    /\ result' = "NameError"
    /\ UNCHANGED <<pageVars, idVars, mainVars, tl_block>>

\* line 59: fitz.open cannot open the file the global names
ReadPdfOpenError ==
    /\ pc = "pdf"
    /\ "pdf_path" \in DOMAIN module_globals
    /\ ~isfile(fs, ReadArg(input_source, module_globals))
    /\ pc' = "error"
    /\ result' = "OpenError"
    /\ UNCHANGED <<pageVars, idVars, mainVars, tl_block>>

\* line 185: text = input_source
UseRawText ==
    /\ pc = "raw"
    /\ text' = input_source
    /\ pc' = "ids"
    /\ UNCHANGED <<result, pageVars, pat_i, trial_ids, mainVars, tl_block>>

\* lines 187-188: trial_ids = extract_trial_ids(text); return trial_ids
ScanText ==
    /\ pc = "ids"
    /\ trial_ids' = ScanFrom(text, 1)
    /\ \E ids \in ListOfSet(trial_ids') : result' = ids
    /\ pc' = "done"
    /\ UNCHANGED <<pageVars, text, pat_i, mainVars, tl_block>>

NextMain ==
    Detect \/ ReadPdf \/ ReadPdfNameError \/ ReadPdfOpenError \/ UseRawText
        \/ ScanText

SpecMain == InitMain /\ [][NextMain]_vars

\* the text the input stands for
TextOfInput(files, src) ==
    IF IsPdfInput(files, src) THEN extract_text_two_cols(files[src].pages)
    ELSE src

\* C5: the call scans the text of its own input (the extraction of the PDF
\* the input names, else the input itself) and returns the identifiers of
\* that text, whatever the state outside its argument.
C5_ScansItsInput ==
    pc \in {"done", "error"} =>
        /\ pc = "done"
        /\ text = TextOfInput(fs, input_source)
        /\ Range(result) = Range(ScanFrom(TextOfInput(fs, input_source), 1))

-----------------------------------------------------------------------------
(* is_table_like on its own *)

TableSpans ==
    {[text |-> <<>>], [text |-> <<"1">>], [text |-> <<"a">>],
     [text |-> <<"1", "2">>], [text |-> <<"a", "b">>], [text |-> <<"^">>],
     [size |-> 9]}

TableLines ==
    {[spans |-> <<sp>>] : sp \in TableSpans}
    \cup {[spans |-> <<[text |-> <<"1">>], [text |-> <<"a">>]>>]}

TableBlocks ==
    {[type |-> 0, bbox |-> <<1, 30, 4, 34>>, lines |-> ls]
        : ls \in SeqsUpTo(TableLines, MaxLines)}
    \cup {BNoLines}

InitTable ==
    /\ pc = "call"
    /\ tl_block \in TableBlocks
    /\ result = "none"
    /\ IdlePage /\ IdleIds /\ IdleMain

\* is_table_like(block) returns
CallIsTableLike ==
    /\ pc = "call"
    /\ ~is_table_like_raises(tl_block)
    /\ result' = is_table_like(tl_block)
    /\ pc' = "done"
    /\ UNCHANGED <<pageVars, idVars, mainVars, tl_block>>

\* block["lines"] raises KeyError
IsTableLikeKeyError ==
    /\ pc = "call"
    /\ is_table_like_raises(tl_block)
    /\ result' = "KeyError"
    /\ pc' = "error"
    /\ UNCHANGED <<pageVars, idVars, mainVars, tl_block>>

NextTable == CallIsTableLike \/ IsTableLikeKeyError

SpecTable == InitTable /\ [][NextTable]_vars

RECURSIVE CountDecimal(_)
CountDecimal(str) ==
    IF str = <<>> THEN 0
    ELSE (IF Head(str) \in DecimalDigits THEN 1 ELSE 0) + CountDecimal(Tail(str))

\* the span texts of the block, one after the other
SpanTextConcat(block) == Join(<<>>, text_content(block.lines))

\* the span texts of the block, a blank between each two
SpanTextJoined(block) == Join(<<" ">>, text_content(block.lines))

\* C10 as stated: true exactly when there are at least 3 lines, the
\* concatenated span text is non-empty and more than 0.3 of its characters are
\* decimal digits.
C10_RatioOverSpanText ==
    pc = "done" =>
        (result <=>
            /\ Len(tl_block.lines) >= 3
            /\ SpanTextConcat(tl_block) # <<>>
            /\ 10 * CountDecimal(SpanTextConcat(tl_block))
                   > 3 * Len(SpanTextConcat(tl_block)))

\* C10 amended: true exactly when there are at least 3 lines, the span texts
\* joined by single blanks are non-empty, and more than 0.3 of the characters
\* of that joined text (the blanks included) are digits by str.isdigit; a
\* ratio of exactly 0.3 over the joined text is not table-like.
C10_RatioOverJoinedText ==
    pc = "done" =>
        /\ result <=>
            /\ Len(tl_block.lines) >= 3
            /\ SpanTextJoined(tl_block) # <<>>
            /\ 10 * CountDigits(SpanTextJoined(tl_block))
                   > 3 * Len(SpanTextJoined(tl_block))
        /\ 10 * CountDigits(SpanTextJoined(tl_block))
                = 3 * Len(SpanTextJoined(tl_block)) => result = FALSE

\* a block of enough lines whose digit ratio over the joined text is exactly 0.3
C10_Witness ==
    /\ pc = "done"
    /\ Len(tl_block.lines) >= 3
    /\ SpanTextJoined(tl_block) # <<>>
    /\ 10 * CountDigits(SpanTextJoined(tl_block)) = 3 * Len(SpanTextJoined(tl_block))

=============================================================================
